---- MODULE Spec2Model ----
(***************************************************************************)
(* Model of the pybites code-quality probe: the summary (summarize), the   *)
(* hotspot listings (print_hotspots, scan_project), the command-line run   *)
(* with its quality gate (main), file discovery (walk_python_files),       *)
(* repository discovery (find_repos) and the interactive session           *)
(* (QualityApp with its RepoPicker).                                       *)
(*                                                                         *)
(* Session.  A handler that scans is taken in two steps, the statements   *)
(* of _run_scan before scan_project and the rest, so that the session is  *)
(* seen while it scans; no other handler runs between the two.  An        *)
(* exception that leaves a handler ends the application.                  *)
(*                                                                         *)
(* Numbers.  Maintainability indices, thresholds and averages are floats  *)
(* in the program.  The model keeps every input an integer and every      *)
(* quotient an exact fraction [num, den] in lowest terms, so a mean and a *)
(* percentage are compared exactly as statistics.mean / the float         *)
(* quotient compare on these inputs.                                       *)
(*                                                                         *)
(* Paths.  str(path) is a sequence of tokens: "/" and the path segments;  *)
(* the substring test ("/tests/" in s) is a search for the three tokens   *)
(* "/", "tests", "/" in a row.                                             *)
(***************************************************************************)
EXTENDS Integers, Sequences, FiniteSets, TLC

VARIABLES
    pc,               \* position of the run
    prog,             \* which entry point runs: "summarize", "hotspots", "cli"
    root,             \* the root Path of the scan
    args,             \* parsed command line (argparse namespace)
    env,              \* PYBITES_QUALITY_* settings read by config()
    root_exists,      \* root.exists()
    py_files,         \* walk_python_files(root) with what analyze_file gives
    file_metrics,     \* list[FileMetrics]
    function_metrics, \* list[FunctionMetrics]
    skipped,          \* scan_project's skipped counter
    summary,          \* ProjectSummary, or None
    listing,          \* the hotspot listings produced, by entry point
    top_n,            \* print_hotspots' top_n
    mi_threshold,
    typing_threshold,
    fail,             \* main's fail flag
    output,           \* what main printed, in order
    exit_status,      \* None while running, then the process exit status
    fs,               \* the directories and files the program looks at
    app,              \* the QualityApp of the interactive session
    picker            \* the RepoPicker screen, or None

vars == <<pc, prog, root, args, env, root_exists, py_files, file_metrics,
          function_metrics, skipped, summary, listing, top_n, mi_threshold,
          typing_threshold, fail, output, exit_status, fs, app, picker>>

\* Python's None
None == [none |-> TRUE]

\* ------------------------------------------------------------------------
\* Bounds of the model
\* ------------------------------------------------------------------------
MaxFiles == 2      \* records in one list passed to summarize
MaxScanFiles == 3  \* files discovered in one scan whose hotspots are listed
MaxCliFiles == 2   \* files discovered in one command-line run

\* ------------------------------------------------------------------------
\* Program constants
\* ------------------------------------------------------------------------
MI_LOW == 80
MI_HIGH == 80
TYPING_TARGET == 80
TuiTopN == 10
DefaultTopN == 5
CxFunctionTarget == 15

\* ------------------------------------------------------------------------
\* Exact fractions
\* ------------------------------------------------------------------------
RECURSIVE GCD(_, _)
GCD(a, b) == IF b = 0 THEN a ELSE GCD(b, a % b)

Frac(n, d) == LET g == GCD(n, d) IN
    IF n = 0 THEN [num |-> 0, den |-> 1] ELSE [num |-> n \div g, den |-> d \div g]

Num(x) == Frac(x, 1)

LT(a, b) == a.num * b.den < b.num * a.den

RECURSIVE Sum(_)
Sum(s) == IF Len(s) = 0 THEN 0 ELSE Head(s) + Sum(Tail(s))

RECURSIVE Max(_)
Max(s) == IF Len(s) = 1 THEN s[1]
          ELSE LET m == Max(Tail(s)) IN IF s[1] >= m THEN s[1] ELSE m

\* statistics.mean: raises StatisticsError on an empty list
mean(s) == IF Len(s) = 0 THEN [error |-> "StatisticsError"] ELSE Frac(Sum(s), Len(s))

Min2(a, b) == IF a <= b THEN a ELSE b

\* seq[:n]
Take(s, n) == SubSeq(s, 1, Min2(n, Len(s)))

\* ------------------------------------------------------------------------
\* Paths
\* ------------------------------------------------------------------------
\* str(Path): segments joined by "/", with a leading "/" when absolute
RECURSIVE Join(_)
Join(segs) == IF Len(segs) = 0 THEN <<>>
              ELSE IF Len(segs) = 1 THEN <<segs[1]>>
              ELSE <<segs[1], "/">> \o Join(Tail(segs))

PathStr(p) ==
    IF p.absolute THEN <<"/">> \o Join(p.parts)
    ELSE IF Len(p.parts) = 0 THEN <<".">>
    ELSE Join(p.parts)

IsPrefix(a, b) == Len(a) <= Len(b) /\ SubSeq(b, 1, Len(a)) = a

\* str(Path(p).relative_to(rt)), or p when relative_to raises ValueError
Rel(p, rt) ==
    IF rt = None THEN p
    ELSE IF ~rt.absolute /\ Len(rt.parts) = 0
         THEN p
    ELSE LET prefix == IF rt.absolute THEN <<"/">> \o Join(rt.parts) \o <<"/">>
                       ELSE Join(rt.parts) \o <<"/">>
         IN  IF IsPrefix(prefix, p) /\ Len(prefix) < Len(p)
             THEN SubSeq(p, Len(prefix) + 1, Len(p))
             ELSE p

\* "/tests/" in s
ContainsTestsDir(s) ==
    \E i \in 1..(Len(s) - 2) : s[i] = "/" /\ s[i + 1] = "tests" /\ s[i + 2] = "/"

\* ------------------------------------------------------------------------
\* FileMetrics lists given to summarize
\* ------------------------------------------------------------------------
Grades == {"A", "B", "C", "D", "E", "F"}

AppPath == <<"/", "proj", "/", "app", "/", "module.py">>
TestPath == <<"/", "proj", "/", "app", "/", "tests", "/", "test_module.py">>
RelTestPath == <<"tests", "/", "test_module.py">>

SummarizePaths == {AppPath, TestPath, RelTestPath}
MiValues == {0, 30, 80, 90}

\* (total_functions, typed_functions, cognitive_complexity, complexity_grades)
FunctionProfiles ==
    { [total |-> 0, typed |-> 0, cx |-> 0, grades |-> <<>>],
      [total |-> 2, typed |-> 1, cx |-> 5, grades |-> [g \in {"A"} |-> 2]],
      [total |-> 2, typed |-> 0, cx |-> 3, grades |-> [g \in {"A"} |-> 2]],
      [total |-> 3, typed |-> 3, cx |-> 8,
       grades |-> [g \in {"A", "D"} |-> IF g = "A" THEN 1 ELSE 2]] }

FileMetrics(path, sloc, mi, fp) ==
    [path |-> path, sloc |-> sloc, mi |-> mi,
     complexity_grades |-> fp.grades,
     total_functions |-> fp.total, typed_functions |-> fp.typed,
     cognitive_complexity |-> fp.cx]

SummarizeRecords ==
    { FileMetrics(p, 10, m, fp) : p \in SummarizePaths, m \in MiValues,
                                  fp \in FunctionProfiles }

SeqsUpTo(S, n) == UNION { [1..k -> S] : k \in 0..n }

\* ------------------------------------------------------------------------
\* summarize (quality.py)
\* ------------------------------------------------------------------------
Field(files, f) == [i \in 1..Len(files) |-> files[i][f]]

IsPositiveMi(f) == f.mi > 0

IsNonNegativeMi(f) == f.mi >= 0

mi_values_nonneg(files) == Field(SelectSeq(files, IsNonNegativeMi), "mi")

mi_values(files) == Field(SelectSeq(files, IsPositiveMi), "mi")

IsLowMi(f) == f.mi < MI_LOW

low_mi_files(files) == Len(SelectSeq(files, IsLowMi))

GradeCount(f, g) ==
    IF g \in DOMAIN f.complexity_grades THEN f.complexity_grades[g] ELSE 0

grade_counts(files) ==
    LET keys == UNION { DOMAIN files[i].complexity_grades : i \in 1..Len(files) }
    IN  [g \in keys |-> Sum([i \in 1..Len(files) |-> GradeCount(files[i], g)])]

high_cc(files) ==
    Sum([i \in 1..Len(files) |->
            GradeCount(files[i], "D") + GradeCount(files[i], "E")
                + GradeCount(files[i], "F")])

total_functions(files) == Sum(Field(files, "total_functions"))

typed_functions(files) == Sum(Field(files, "typed_functions"))

\* a coverage that counts a project without functions as fully typed
typing_coverage_full_when_empty(files) ==
    IF total_functions(files) # 0
    THEN Frac(typed_functions(files) * 100, total_functions(files))
    ELSE Num(100)

typing_coverage(files) ==
    IF total_functions(files) # 0
    THEN Frac(typed_functions(files) * 100, total_functions(files))
    ELSE Num(0)

cx_values(files) == Field(files, "cognitive_complexity")

avg_cx(files) == IF Len(cx_values(files)) # 0 THEN mean(cx_values(files)) ELSE Num(0)

max_cx(files) == IF Len(cx_values(files)) # 0 THEN Max(cx_values(files)) ELSE 0

avg_mi(files) == IF Len(mi_values(files)) # 0 THEN mean(mi_values(files)) ELSE Num(0)

summarize(files, rt) ==
    [root |-> rt,
     files_scanned |-> Len(files),
     total_sloc |-> Sum(Field(files, "sloc")),
     avg_sloc_per_file |->
        IF Len(files) # 0 THEN Frac(Sum(Field(files, "sloc")), Len(files)) ELSE Num(0),
     avg_mi |-> avg_mi(files),
     low_mi_files |-> low_mi_files(files),
     high_complexity_functions |-> high_cc(files),
     cc_grade_counts |-> grade_counts(files),
     total_functions |-> total_functions(files),
     typed_functions |-> typed_functions(files),
     typing_coverage |-> typing_coverage(files),
     avg_cognitive_complexity |-> avg_cx(files),
     max_cognitive_complexity |-> max_cx(files)]

\* ------------------------------------------------------------------------
\* Specification of summarize as a function of its list
\* ------------------------------------------------------------------------
Idle ==
    /\ root = None /\ args = None /\ env = None /\ root_exists = TRUE /\ py_files = <<>>
    /\ function_metrics = <<>> /\ skipped = 0 /\ listing = None /\ top_n = DefaultTopN
    /\ mi_threshold = None /\ typing_threshold = None /\ fail = FALSE
    /\ output = <<>> /\ exit_status = None
    /\ fs = None /\ app = None /\ picker = None

InitSummarize ==
    /\ pc = "start" /\ prog = "summarize"
    /\ file_metrics \in SeqsUpTo(SummarizeRecords, MaxFiles)
    /\ summary = None
    /\ Idle

Summarize ==
    /\ prog = "summarize" /\ pc = "start"
    /\ summary' = summarize(file_metrics, <<"/", "proj">>)
    /\ pc' = "done"
    /\ UNCHANGED <<fs, app, picker, prog, root, args, env, root_exists, py_files, file_metrics,
                   function_metrics, skipped, listing, top_n, mi_threshold,
                   typing_threshold, fail, output, exit_status>>

NextSummarize == Summarize

SpecSummarize == InitSummarize /\ [][NextSummarize]_vars

\* ------------------------------------------------------------------------
\* Claims about summarize
\* ------------------------------------------------------------------------
\* the path has a directory segment named tests
IsTestFile(path) ==
    \E i \in 1..(Len(path) - 1) : path[i] = "tests" /\ path[i + 1] = "/"

NonTestIdx(files) == { i \in 1..Len(files) : ~IsTestFile(files[i].path) }

RECURSIVE SumAt(_, _, _)
SumAt(S, files, f) ==
    IF S = {} THEN 0
    ELSE LET i == CHOOSE x \in S : TRUE IN files[i][f] + SumAt(S \ {i}, files, f)

Summarized == prog = "summarize" /\ pc = "done"

\* C1: low_mi_files is the number of records that are not test files and
\* whose maintainability index is strictly below MI_LOW; test-file records
\* never add to the count and an index equal to MI_LOW is not counted.
C1_LowMiCountsNonTestOnly ==
    Summarized =>
        summary.low_mi_files =
            Cardinality({ i \in NonTestIdx(file_metrics) : file_metrics[i].mi < MI_LOW })

\* C2: total_functions, typed_functions, typing_coverage and the average and
\* maximum cognitive complexity are computed over the non-test records only,
\* with coverage 0 when the non-test function total is 0 and average and
\* maximum 0 when there is no non-test record.
C2_TypingAndCxOverNonTestOnly ==
    Summarized =>
        LET N == NonTestIdx(file_metrics)
            total == SumAt(N, file_metrics, "total_functions")
            typed == SumAt(N, file_metrics, "typed_functions")
            cx == SumAt(N, file_metrics, "cognitive_complexity")
        IN  /\ summary.total_functions = total
            /\ summary.typed_functions = typed
            /\ summary.typing_coverage.num * total
                   = typed * 100 * summary.typing_coverage.den
            /\ total = 0 => summary.typing_coverage = Num(0)
            /\ summary.avg_cognitive_complexity.num * Cardinality(N)
                   = cx * summary.avg_cognitive_complexity.den
            /\ N = {} => /\ summary.avg_cognitive_complexity = Num(0)
                         /\ summary.max_cognitive_complexity = 0
            /\ \A i \in N :
                   file_metrics[i].cognitive_complexity <= summary.max_cognitive_complexity
            /\ N # {} => \E i \in N :
                   file_metrics[i].cognitive_complexity = summary.max_cognitive_complexity

\* C3: avg_mi is the arithmetic mean of the maintainability index over all
\* records, test files included, whose index is strictly positive; it is 0
\* when no record has a positive index (the empty list included), and the
\* mean of an empty list is never taken.
C3_AvgMiOverPositiveOfAll ==
    Summarized =>
        LET P == { i \in 1..Len(file_metrics) : file_metrics[i].mi > 0 }
        IN  /\ "error" \notin DOMAIN summary.avg_mi
            /\ P = {} => summary.avg_mi = Num(0)
            /\ P # {} => summary.avg_mi.num * Cardinality(P)
                            = SumAt(P, file_metrics, "mi") * summary.avg_mi.den

\* a test file with a positive index next to a record with index 0
C3_Witness ==
    /\ Summarized
    /\ \E i, j \in 1..Len(file_metrics) :
          /\ IsTestFile(file_metrics[i].path) /\ file_metrics[i].mi > 0
          /\ file_metrics[j].mi = 0
    /\ summary.avg_mi # Num(0)

\* ------------------------------------------------------------------------
\* A scan: the files walk_python_files finds and what analyze_file gives
\* ------------------------------------------------------------------------
\* Path(".") and an absolute root
DotRoot == [absolute |-> FALSE, parts |-> <<>>]
ProjRoot == [absolute |-> TRUE, parts |-> <<"proj">>]

Roots == {DotRoot, ProjRoot}

\* root / dir / name
Child(rt, dir, name) == [absolute |-> rt.absolute, parts |-> rt.parts \o dir \o <<name>>]

FileName(i) == "file_" \o ToString(i) \o ".py"

\* what one discovered file is: where it lies under the root, and the outcome
\* of analyze_file on it: a record ("ok", with its index and the cognitive
\* complexity of each of its functions), None ("none": undecodable bytes)
\* or a SyntaxError ("syntax")
ScanEntries ==
    { [dir |-> <<>>, outcome |-> "ok", mi |-> 70, fns |-> <<12, 5, 12, 3>>, typed |-> 2],
      [dir |-> <<>>, outcome |-> "ok", mi |-> 30, fns |-> <<5>>, typed |-> 1],
      [dir |-> <<"tests">>, outcome |-> "ok", mi |-> 10, fns |-> <<12, 12, 7, 2>>,
       typed |-> 0],
      [dir |-> <<"pkg", "tests">>, outcome |-> "ok", mi |-> 70, fns |-> <<>>, typed |-> 0],
      [dir |-> <<>>, outcome |-> "none", mi |-> 0, fns |-> <<>>, typed |-> 0],
      [dir |-> <<>>, outcome |-> "syntax", mi |-> 0, fns |-> <<>>, typed |-> 0] }

\* walk_python_files(root): the i-th discovered file is root/dir/file_i.py
Discovered(rt, entries) ==
    [i \in 1..Len(entries) |->
        [path |-> Child(rt, entries[i].dir, FileName(i)), entry |-> entries[i]]]

FunctionMetrics(file, name, lineno, cx) ==
    [file |-> file, name |-> name, lineno |-> lineno, cognitive_complexity |-> cx]

\* analyze_file(path) when it returns a pair
fn_metrics_of(d) ==
    [j \in 1..Len(d.entry.fns) |->
        FunctionMetrics(PathStr(d.path), "func_" \o ToString(j), j * 10, d.entry.fns[j])]

file_metrics_of(d) ==
    FileMetrics(PathStr(d.path), 10, d.entry.mi,
        [total |-> Len(d.entry.fns), typed |-> d.entry.typed,
         cx |-> Sum(d.entry.fns),
         grades |-> IF Len(d.entry.fns) = 0 THEN <<>>
                    ELSE [g \in {"A"} |-> Len(d.entry.fns)]])

\* ------------------------------------------------------------------------
\* Hotspot ranking
\* ------------------------------------------------------------------------
IsNotTestPath(f) == ~ContainsTestsDir(f.path)

non_test_files(files) == SelectSeq(files, IsNotTestPath)

\* sorted(files, key=lambda f: f.mi): ascending and stable
RECURSIVE InsertByMi(_, _)
InsertByMi(x, s) ==
    IF Len(s) = 0 THEN <<x>>
    ELSE IF x.mi < Head(s).mi THEN <<x>> \o s
    ELSE <<Head(s)>> \o InsertByMi(x, Tail(s))

RECURSIVE InsertByMiBeforeEqual(_, _)
InsertByMiBeforeEqual(x, s) ==
    IF Len(s) = 0 THEN <<x>>
    ELSE IF x.mi <= Head(s).mi THEN <<x>> \o s
    ELSE <<Head(s)>> \o InsertByMiBeforeEqual(x, Tail(s))

RECURSIVE SortedByMiUnstable(_)
SortedByMiUnstable(s) ==
    IF Len(s) = 0 THEN <<>>
    ELSE InsertByMiBeforeEqual(s[Len(s)], SortedByMiUnstable(SubSeq(s, 1, Len(s) - 1)))

RECURSIVE SortedByMi(_)
SortedByMi(s) ==
    IF Len(s) = 0 THEN <<>>
    ELSE InsertByMi(s[Len(s)], SortedByMi(SubSeq(s, 1, Len(s) - 1)))

\* sorted(functions, key=lambda fn: fn.cognitive_complexity, reverse=True):
\* descending, and equal keys keep their order
RECURSIVE InsertByCxDesc(_, _)
InsertByCxDesc(x, s) ==
    IF Len(s) = 0 THEN <<x>>
    ELSE IF x.cognitive_complexity > Head(s).cognitive_complexity THEN <<x>> \o s
    ELSE <<Head(s)>> \o InsertByCxDesc(x, Tail(s))

RECURSIVE InsertByCxDescBeforeEqual(_, _)
InsertByCxDescBeforeEqual(x, s) ==
    IF Len(s) = 0 THEN <<x>>
    ELSE IF x.cognitive_complexity >= Head(s).cognitive_complexity THEN <<x>> \o s
    ELSE <<Head(s)>> \o InsertByCxDescBeforeEqual(x, Tail(s))

\* an ascending sort read backwards: equal keys come out in reverse order
RECURSIVE SortedByCxAscReversed(_)
SortedByCxAscReversed(s) ==
    IF Len(s) = 0 THEN <<>>
    ELSE InsertByCxDescBeforeEqual(s[Len(s)],
                                   SortedByCxAscReversed(SubSeq(s, 1, Len(s) - 1)))

RECURSIVE SortedByCxDesc(_)
SortedByCxDesc(s) ==
    IF Len(s) = 0 THEN <<>>
    ELSE InsertByCxDesc(s[Len(s)], SortedByCxDesc(SubSeq(s, 1, Len(s) - 1)))

\* quality.py print_hotspots and tui.py scan_project
worst_files(files, n) == Take(SortedByMi(non_test_files(files)), n)

\* main.py print_hotspots
worst_files_main(files, n) == Take(SortedByMi(files), n)

worst_fns(functions, n) == Take(SortedByCxDesc(functions), n)

\* the labels of a listed file and of a listed function
MiLabel(mi, mi_low_threshold, mi_target) ==
    IF mi < mi_low_threshold THEN "WATCH"
    ELSE IF mi >= mi_target THEN "GOOD"
    ELSE "OK"

CxFlag(cx, cx_function_target) == IF cx > cx_function_target THEN "OVER" ELSE "OK"

FileRows(wf, rt) ==
    [i \in 1..Len(wf) |->
        [mi |-> wf[i].mi, label |-> MiLabel(wf[i].mi, MI_LOW, MI_HIGH),
         path |-> Rel(wf[i].path, rt)]]

FnRows(wfn, rt) ==
    [i \in 1..Len(wfn) |->
        [cx |-> wfn[i].cognitive_complexity,
         flag |-> CxFlag(wfn[i].cognitive_complexity, CxFunctionTarget),
         file |-> Rel(wfn[i].file, rt), lineno |-> wfn[i].lineno,
         name |-> wfn[i].name]]

\* quality.py print_hotspots(files, functions, top_n=n, root=rt)
print_hotspots(files, functions, n, rt) ==
    [by |-> "print_hotspots", n |-> n,
     worst_files |-> worst_files(files, n),
     worst_fns |-> worst_fns(functions, n),
     lines |-> <<[line |-> "Top lowest MI files"]>> \o FileRows(worst_files(files, n), rt)
                \o <<[line |-> "Top most complex functions"]>>
                \o FnRows(worst_fns(functions, n), rt)]

\* main.py print_hotspots(files, functions, top_n=n)
print_hotspots_main(files, functions, n) ==
    [by |-> "main.print_hotspots", n |-> n,
     worst_files |-> worst_files_main(files, n),
     worst_fns |-> worst_fns(functions, n),
     lines |-> <<[line |-> "Top lowest MI files"]>>
                \o [i \in 1..Len(worst_files_main(files, n)) |->
                      [mi |-> worst_files_main(files, n)[i].mi,
                       label |-> IF worst_files_main(files, n)[i].mi < 65 THEN "LOW"
                                 ELSE IF worst_files_main(files, n)[i].mi >= 85 THEN "HIGH"
                                 ELSE "MED",
                       path |-> worst_files_main(files, n)[i].path]]
                \o <<[line |-> "Top most complex functions"]>>
                \o FnRows(worst_fns(functions, n), None)]

\* a loop that counts a None result as a skipped file as well
RECURSIVE ScanLoopCountsNone(_, _, _)
ScanLoopCountsNone(ds, i, acc) ==
    IF i > Len(ds) THEN acc
    ELSE IF ds[i].entry.outcome = "oserror" THEN [acc EXCEPT !.raised = TRUE]
    ELSE IF ds[i].entry.outcome \in {"syntax", "none"}
         THEN ScanLoopCountsNone(ds, i + 1, [acc EXCEPT !.skipped = @ + 1])
    ELSE ScanLoopCountsNone(ds, i + 1,
            [acc EXCEPT !.files = Append(@, file_metrics_of(ds[i])),
                        !.fns = @ \o fn_metrics_of(ds[i])])

\* the loop of scan_project: a SyntaxError is counted and the file skipped,
\* a None result is passed over, a pair is added to the two lists; any other
\* exception of analyze_file (read_text raising OSError) is not caught and
\* ends the loop
RECURSIVE ScanLoop(_, _, _)
ScanLoop(ds, i, acc) ==
    IF i > Len(ds) THEN acc
    ELSE IF ds[i].entry.outcome = "oserror" THEN [acc EXCEPT !.raised = TRUE]
    ELSE IF ds[i].entry.outcome = "syntax"
         THEN ScanLoop(ds, i + 1, [acc EXCEPT !.skipped = @ + 1])
    ELSE IF ds[i].entry.outcome = "none"
         THEN ScanLoop(ds, i + 1, acc)
    ELSE ScanLoop(ds, i + 1,
            [acc EXCEPT !.files = Append(@, file_metrics_of(ds[i])),
                        !.fns = @ \o fn_metrics_of(ds[i])])

EmptyScan == [files |-> <<>>, fns |-> <<>>, skipped |-> 0, raised |-> FALSE]

\* a scan whose summary is taken over the non-test records only
scan_project_non_test_summary(rt, ds) ==
    LET r == ScanLoop(ds, 1, EmptyScan)
    IN  [summary |-> summarize(non_test_files(r.files), PathStr(rt)),
         file_metrics |-> r.files,
         fn_metrics |-> r.fns,
         worst_files |-> worst_files(r.files, TuiTopN),
         worst_fns |-> worst_fns(r.fns, TuiTopN),
         skipped |-> r.skipped,
         raised |-> r.raised]

scan_project(rt, ds) ==
    LET r == ScanLoop(ds, 1, EmptyScan)
    IN  [summary |-> summarize(r.files, PathStr(rt)),
         file_metrics |-> r.files,
         fn_metrics |-> r.fns,
         worst_files |-> worst_files(r.files, TuiTopN),
         worst_fns |-> worst_fns(r.fns, TuiTopN),
         skipped |-> r.skipped,
         raised |-> r.raised]

\* ------------------------------------------------------------------------
\* Specification of the hotspot listings over one scan
\* ------------------------------------------------------------------------
TopNs == {1, 2, DefaultTopN}

InitHotspots ==
    /\ pc = "start" /\ prog = "hotspots"
    /\ root \in Roots
    /\ \E es \in SeqsUpTo(ScanEntries, MaxScanFiles) : py_files = Discovered(root, es)
    /\ file_metrics = <<>> /\ function_metrics = <<>> /\ skipped = 0
    /\ summary = None /\ listing = None /\ top_n = DefaultTopN
    /\ args = None /\ env = None /\ root_exists = TRUE
    /\ mi_threshold = None /\ typing_threshold = None /\ fail = FALSE
    /\ output = <<>> /\ exit_status = None
    /\ fs = None /\ app = None /\ picker = None

ScanProject ==
    /\ prog = "hotspots" /\ pc = "start"
    /\ LET r == scan_project(root, py_files)
       IN  /\ file_metrics' = r.file_metrics
           /\ function_metrics' = r.fn_metrics
           /\ skipped' = r.skipped
           /\ summary' = r.summary
           /\ listing' = [by |-> "scan_project", n |-> TuiTopN,
                          worst_files |-> r.worst_files, worst_fns |-> r.worst_fns]
    /\ pc' = "done"
    /\ UNCHANGED <<fs, app, picker, prog, root, args, env, root_exists, py_files, top_n,
                   mi_threshold, typing_threshold, fail, output, exit_status>>

PrintHotspots ==
    /\ prog = "hotspots" /\ pc = "start"
    /\ \E n \in TopNs :
          LET r == ScanLoop(py_files, 1, EmptyScan)
              h == print_hotspots(r.files, r.fns, n, root)
          IN  /\ file_metrics' = r.files
              /\ function_metrics' = r.fns
              /\ top_n' = n
              /\ listing' = [by |-> h.by, n |-> n, worst_files |-> h.worst_files,
                             worst_fns |-> h.worst_fns]
              /\ output' = h.lines
    /\ pc' = "done"
    /\ UNCHANGED <<fs, app, picker, prog, root, args, env, root_exists, py_files, skipped, summary,
                   mi_threshold, typing_threshold, fail, exit_status>>

PrintHotspotsMain ==
    /\ prog = "hotspots" /\ pc = "start"
    /\ \E n \in TopNs :
          LET r == ScanLoop(py_files, 1, EmptyScan)
              h == print_hotspots_main(r.files, r.fns, n)
          IN  /\ file_metrics' = r.files
              /\ function_metrics' = r.fns
              /\ top_n' = n
              /\ listing' = [by |-> h.by, n |-> n, worst_files |-> h.worst_files,
                             worst_fns |-> h.worst_fns]
              /\ output' = h.lines
    /\ pc' = "done"
    /\ UNCHANGED <<fs, app, picker, prog, root, args, env, root_exists, py_files, skipped, summary,
                   mi_threshold, typing_threshold, fail, exit_status>>

NextHotspots == ScanProject \/ PrintHotspots \/ PrintHotspotsMain

SpecHotspots == InitHotspots /\ [][NextHotspots]_vars

\* ------------------------------------------------------------------------
\* The command-line run (quality.py main)
\* ------------------------------------------------------------------------
\* float(text), as argparse (type=float) and config (cast=float) apply it
FloatOf(text) ==
    CASE text = "0" -> Num(0)
      [] text = "50" -> Num(50)
      [] text = "70" -> Num(70)
      [] text = "75" -> Num(75)
      [] text = "110" -> Num(110)

\* an option that is not on the command line, a setting that is not set
Unset == "unset"

\* argparse: an option that is not given keeps its default None
ArgFloat(text) == IF text = Unset THEN None ELSE FloatOf(text)

\* decouple's config(name, default, cast=float)
config(setting, default) == IF setting = Unset THEN Num(default) ELSE FloatOf(setting)

\* Python's truth value of None and of a float
Truthy(x) == x # None /\ x # Num(0)

\* the override taken whenever one is given
OverrideIfGiven(a, b) == IF a # None THEN a ELSE b

\* a or b
PyOr(a, b) == IF Truthy(a) THEN a ELSE b

MiReason(s, t) == [failed |-> "Average MI", value |-> s.avg_mi, threshold |-> t]

TypingReason(s, t) ==
    [failed |-> "Typing coverage", value |-> s.typing_coverage, threshold |-> t]

\* a gate that reports the typing failure only when the index passed
gate_elif(s, mi_thr, typ_thr) ==
    [fail |-> LT(s.avg_mi, mi_thr) \/ LT(s.typing_coverage, typ_thr),
     reasons |-> IF LT(s.avg_mi, mi_thr) THEN <<MiReason(s, mi_thr)>>
                 ELSE IF LT(s.typing_coverage, typ_thr) THEN <<TypingReason(s, typ_thr)>>
                 ELSE <<>>]

\* the two checks of main, one after the other
gate(s, mi_thr, typ_thr) ==
    [fail |-> LT(s.avg_mi, mi_thr) \/ LT(s.typing_coverage, typ_thr),
     reasons |-> (IF LT(s.avg_mi, mi_thr) THEN <<MiReason(s, mi_thr)>> ELSE <<>>)
                 \o (IF LT(s.typing_coverage, typ_thr)
                       THEN <<TypingReason(s, typ_thr)>> ELSE <<>>)]

\* the loop of main: no exception is caught, the first one ends the run
RECURSIVE MainLoop(_, _, _)
MainLoop(ds, i, acc) ==
    IF i > Len(ds) THEN acc
    ELSE IF ds[i].entry.outcome \in {"syntax", "oserror"} THEN [acc EXCEPT !.raised = TRUE]
    ELSE IF ds[i].entry.outcome = "none" THEN MainLoop(ds, i + 1, acc)
    ELSE MainLoop(ds, i + 1,
            [acc EXCEPT !.files = Append(@, file_metrics_of(ds[i])),
                        !.fns = @ \o fn_metrics_of(ds[i])])

CliEntries ==
    { [dir |-> <<>>, outcome |-> "ok", mi |-> 90, fns |-> <<3, 1>>, typed |-> 2],
      [dir |-> <<"tests">>, outcome |-> "ok", mi |-> 70, fns |-> <<12, 20>>, typed |-> 1],
      [dir |-> <<>>, outcome |-> "none", mi |-> 0, fns |-> <<>>, typed |-> 0],
      [dir |-> <<>>, outcome |-> "syntax", mi |-> 0, fns |-> <<>>, typed |-> 0] }

CliArgs ==
    [json : BOOLEAN,
     fail_mi_below : {Unset, "0", "50", "70"},
     fail_typing_below : {Unset, "0", "50"}]

CliEnv ==
    [PYBITES_QUALITY_FAIL_MI_BELOW : {Unset, "75"},
     PYBITES_QUALITY_FAIL_TYPING_BELOW : {Unset, "110"}]

InitCli ==
    /\ pc = "thresholds" /\ prog = "cli"
    /\ root = ProjRoot
    /\ args \in CliArgs
    /\ env \in CliEnv
    /\ root_exists \in BOOLEAN
    /\ \E es \in SeqsUpTo(CliEntries, MaxCliFiles) : py_files = Discovered(root, es)
    /\ ~root_exists => py_files = <<>>
    /\ file_metrics = <<>> /\ function_metrics = <<>> /\ skipped = 0
    /\ summary = None /\ listing = None /\ top_n = DefaultTopN
    /\ mi_threshold = None /\ typing_threshold = None /\ fail = FALSE
    /\ output = <<>> /\ exit_status = None
    /\ fs = None /\ app = None /\ picker = None

main_thresholds ==
    /\ prog = "cli" /\ pc = "thresholds"
    /\ mi_threshold' = PyOr(ArgFloat(args.fail_mi_below),
                             config(env.PYBITES_QUALITY_FAIL_MI_BELOW, MI_LOW))
    /\ typing_threshold' = PyOr(ArgFloat(args.fail_typing_below),
                                 config(env.PYBITES_QUALITY_FAIL_TYPING_BELOW,
                                        TYPING_TARGET))
    /\ pc' = "root"
    /\ UNCHANGED <<fs, app, picker, prog, root, args, env, root_exists, py_files, file_metrics,
                   function_metrics, skipped, summary, listing, top_n, fail, output,
                   exit_status>>

\* a run that reports the missing root and still ends with status 0
PathNotFoundStatusZero(rt) ==
    [code |-> 0, message |-> <<"Path", " ", "not", " ", "found", ":", " ">> \o PathStr(rt)]

\* raise SystemExit(f"Path not found: {root}"): the text goes to stderr and
\* the exit status is 1
PathNotFound(rt) ==
    [code |-> 1, message |-> <<"Path", " ", "not", " ", "found", ":", " ">> \o PathStr(rt)]

main_root_missing ==
    /\ prog = "cli" /\ pc = "root" /\ ~root_exists
    /\ exit_status' = PathNotFound(root)
    /\ pc' = "done"
    /\ UNCHANGED <<fs, app, picker, prog, root, args, env, root_exists, py_files, file_metrics,
                   function_metrics, skipped, summary, listing, top_n, mi_threshold,
                   typing_threshold, fail, output>>

main_scan ==
    /\ prog = "cli" /\ pc = "root" /\ root_exists
    /\ LET r == MainLoop(py_files, 1, [files |-> <<>>, fns |-> <<>>, raised |-> FALSE])
       IN  \/ /\ r.raised
              /\ exit_status' = [code |-> 1, message |-> <<"Traceback", ":", " ", "SyntaxError">>]
              /\ pc' = "done"
              /\ UNCHANGED <<file_metrics, function_metrics>>
           \/ /\ ~r.raised
              /\ file_metrics' = r.files
              /\ function_metrics' = r.fns
              /\ pc' = "summarize"
              /\ UNCHANGED exit_status
    /\ UNCHANGED <<fs, app, picker, prog, root, args, env, root_exists, py_files, skipped, summary,
                   listing, top_n, mi_threshold, typing_threshold, fail, output>>

main_summarize ==
    /\ prog = "cli" /\ pc = "summarize"
    /\ summary' = summarize(file_metrics, PathStr(root))
    /\ pc' = "report"
    /\ UNCHANGED <<fs, app, picker, prog, root, args, env, root_exists, py_files, file_metrics,
                   function_metrics, skipped, listing, top_n, mi_threshold,
                   typing_threshold, fail, output, exit_status>>

main_json ==
    /\ prog = "cli" /\ pc = "report" /\ args.json
    /\ output' = <<[json |-> summary]>>
    /\ exit_status' = [code |-> 0, message |-> <<>>]
    /\ pc' = "done"
    /\ UNCHANGED <<fs, app, picker, prog, root, args, env, root_exists, py_files, file_metrics,
                   function_metrics, skipped, summary, listing, top_n, mi_threshold,
                   typing_threshold, fail>>

main_text ==
    /\ prog = "cli" /\ pc = "report" /\ ~args.json
    /\ LET h == print_hotspots(file_metrics, function_metrics, DefaultTopN, root)
       IN  /\ listing' = [by |-> h.by, n |-> h.n, worst_files |-> h.worst_files,
                          worst_fns |-> h.worst_fns]
           /\ output' = <<[snapshot |-> summary]>> \o h.lines
    /\ pc' = "gate"
    /\ UNCHANGED <<fs, app, picker, prog, root, args, env, root_exists, py_files, file_metrics,
                   function_metrics, skipped, summary, top_n, mi_threshold,
                   typing_threshold, fail, exit_status>>

main_gate ==
    /\ prog = "cli" /\ pc = "gate"
    /\ LET g == gate(summary, mi_threshold, typing_threshold)
       IN  /\ fail' = g.fail
           /\ output' = output \o g.reasons
    /\ pc' = "exit"
    /\ UNCHANGED <<fs, app, picker, prog, root, args, env, root_exists, py_files, file_metrics,
                   function_metrics, skipped, summary, listing, top_n, mi_threshold,
                   typing_threshold, exit_status>>

main_exit ==
    /\ prog = "cli" /\ pc = "exit"
    /\ \/ /\ fail
          /\ exit_status' = [code |-> 1, message |-> <<>>]
          /\ UNCHANGED output
       \/ /\ ~fail
          /\ output' = Append(output, [line |-> "Run this before and after a training cycle"])
          /\ exit_status' = [code |-> 0, message |-> <<>>]
    /\ pc' = "done"
    /\ UNCHANGED <<fs, app, picker, prog, root, args, env, root_exists, py_files, file_metrics,
                   function_metrics, skipped, summary, listing, top_n, mi_threshold,
                   typing_threshold, fail>>

NextCli ==
    \/ main_thresholds
    \/ main_root_missing
    \/ main_scan
    \/ main_summarize
    \/ main_json
    \/ main_text
    \/ main_gate
    \/ main_exit

SpecCli == InitCli /\ [][NextCli]_vars

\* ------------------------------------------------------------------------
\* Claims about the hotspot listings
\* ------------------------------------------------------------------------
Listed == prog = "hotspots" /\ pc = "done"

\* position of a listed file / function in discovery order
FilePos(f) == CHOOSE i \in 1..Len(file_metrics) : file_metrics[i] = f

FnPos(fn) == CHOOSE i \in 1..Len(function_metrics) : function_metrics[i] = fn

InSeq(x, s) == \E i \in 1..Len(s) : s[i] = x

\* C4: in every hotspot listing with bound N, worst_files holds no test file
\* and its length is min(N, number of non-test file records).
C4_WorstFilesExcludeTests ==
    Listed =>
        /\ \A i \in 1..Len(listing.worst_files) :
              ~IsTestFile(listing.worst_files[i].path)
        /\ Len(listing.worst_files)
              = Min2(listing.n, Cardinality(NonTestIdx(file_metrics)))

\* C5: worst_files is in ascending order of maintainability index, files of
\* equal index stand in discovery order, and a non-test file is left out
\* only when the listing is full and its index is no lower than any listed.
C5_WorstFilesLowestAscendingStable ==
    Listed =>
        LET wf == listing.worst_files IN
        /\ \A i \in 1..Len(wf) : InSeq(wf[i], file_metrics)
        /\ \A i, j \in 1..Len(wf) :
              i < j => /\ wf[i].mi <= wf[j].mi
                       /\ wf[i].mi = wf[j].mi => FilePos(wf[i]) < FilePos(wf[j])
        /\ \A k \in NonTestIdx(file_metrics) :
              ~InSeq(file_metrics[k], wf) =>
                  /\ Len(wf) = listing.n
                  /\ \A i \in 1..Len(wf) : wf[i].mi <= file_metrics[k].mi

\* a full listing with two files of equal index in it and one left out
C5_Witness ==
    /\ Listed
    /\ Len(listing.worst_files) >= 2
    /\ listing.worst_files[1].mi = listing.worst_files[2].mi
    /\ \E k \in NonTestIdx(file_metrics) :
          ~InSeq(file_metrics[k], listing.worst_files)

\* the functions of every file that returned a record, in discovery order
RECURSIVE AllFunctions(_, _)
AllFunctions(ds, i) ==
    IF i > Len(ds) THEN <<>>
    ELSE IF ds[i].entry.outcome = "ok"
         THEN [j \in 1..Len(ds[i].entry.fns) |->
                  [file |-> PathStr(ds[i].path), lineno |-> j * 10,
                   cx |-> ds[i].entry.fns[j]]] \o AllFunctions(ds, i + 1)
    ELSE AllFunctions(ds, i + 1)

ListedAt(f, wfn) ==
    { i \in 1..Len(wfn) : wfn[i].file = f.file /\ wfn[i].lineno = f.lineno
                             /\ wfn[i].cognitive_complexity = f.cx }

\* C6: worst_functions is taken over the functions of all analyzed files,
\* test files included, has length min(N, number of function records), is in
\* descending order of cognitive complexity, and functions of equal
\* complexity keep their discovery order.
C6_WorstFunctionsAllFilesDescendingStable ==
    Listed =>
        LET wfn == listing.worst_fns
            all == AllFunctions(py_files, 1)
        IN
        /\ Len(wfn) = Min2(listing.n, Len(all))
        /\ \A i, j \in 1..Len(wfn) :
              i < j => /\ wfn[i].cognitive_complexity >= wfn[j].cognitive_complexity
                       /\ wfn[i].cognitive_complexity = wfn[j].cognitive_complexity
                             => \E a, b \in 1..Len(all) :
                                   /\ a < b
                                   /\ i \in ListedAt(all[a], wfn)
                                   /\ j \in ListedAt(all[b], wfn)
        /\ \A a \in 1..Len(all) :
              \/ Cardinality(ListedAt(all[a], wfn)) = 1
              \/ /\ ListedAt(all[a], wfn) = {}
                 /\ \A i \in 1..Len(wfn) : wfn[i].cognitive_complexity >= all[a].cx

\* scan_project lists a function of a test file among functions of equal
\* complexity while other functions are left out
C6_Witness ==
    /\ Listed /\ listing.by = "scan_project"
    /\ Len(function_metrics) > listing.n
    /\ \E i, j \in 1..Len(listing.worst_fns) :
          /\ i < j
          /\ IsTestFile(listing.worst_fns[j].file)
          /\ listing.worst_fns[i].cognitive_complexity
                = listing.worst_fns[j].cognitive_complexity

\* C7: a file is treated as a test file if and only if its path has a
\* directory segment named tests, wherever the segment stands, and such a
\* file is left out of worst_files, under a relative root as well.
C7_TestFileIffTestsSegment ==
    (Listed /\ listing.by \in {"scan_project", "print_hotspots"}) =>
        \A k \in 1..Len(file_metrics) :
            /\ ContainsTestsDir(file_metrics[k].path) <=> IsTestFile(file_metrics[k].path)
            /\ IsTestFile(file_metrics[k].path)
                  => ~InSeq(file_metrics[k], listing.worst_files)

\* ------------------------------------------------------------------------
\* Claims about the command-line run
\* ------------------------------------------------------------------------
\* a < b on exact fractions
StrictlyBelow(a, b) == a.num * b.den < b.num * a.den

MiBelow == StrictlyBelow(summary.avg_mi, mi_threshold)

TypingBelow == StrictlyBelow(summary.typing_coverage, typing_threshold)

Reported(what) ==
    \E i \in 1..Len(output) :
        /\ DOMAIN output[i] = {"failed", "value", "threshold"}
        /\ output[i].failed = what

\* the two checks of the gate have been made
GateRan ==
    /\ prog = "cli"
    /\ \/ pc = "exit"
       \/ pc = "done" /\ summary # None /\ ~args.json

\* C8: the gate fails if and only if avg_mi < mi_threshold or
\* typing_coverage < typing_threshold, both strict; a failure reason is
\* reported for each condition that holds, so both appear when both hold.
C8_GateStrictAndIndependent ==
    GateRan =>
        /\ fail <=> (MiBelow \/ TypingBelow)
        /\ Reported("Average MI") <=> MiBelow
        /\ Reported("Typing coverage") <=> TypingBelow

\* both metrics below their thresholds and both reasons printed
C8_Witness ==
    /\ GateRan /\ pc = "done"
    /\ MiBelow /\ TypingBelow
    /\ Reported("Average MI") /\ Reported("Typing coverage")
    /\ exit_status.code = 1

\* C9: for each threshold, an override given on the command line is the
\* threshold the gate uses, whatever its value (0 included) and whatever the
\* default; the default is used only when no override is given.
C9_OverrideAlwaysWins ==
    (prog = "cli" /\ pc # "thresholds") =>
        /\ mi_threshold =
              OverrideIfGiven(ArgFloat(args.fail_mi_below),
                              config(env.PYBITES_QUALITY_FAIL_MI_BELOW, MI_LOW))
        /\ typing_threshold =
              OverrideIfGiven(ArgFloat(args.fail_typing_below),
                              config(env.PYBITES_QUALITY_FAIL_TYPING_BELOW, TYPING_TARGET))

\* C10: for an existing root, the run ends with status 1 whenever the gate
\* fails and with status 0 whenever it passes, in the text and the JSON mode.
C10_ExitStatusFollowsGate ==
    (prog = "cli" /\ pc = "done" /\ root_exists /\ summary # None) =>
        /\ (MiBelow \/ TypingBelow) => exit_status.code = 1
        /\ ~(MiBelow \/ TypingBelow) => exit_status.code = 0

\* ------------------------------------------------------------------------
\* Claims about failures: a missing root, a file that cannot be analysed
\* ------------------------------------------------------------------------
\* "not found" in msg
ContainsNotFound(msg) ==
    \E i \in 1..(Len(msg) - 2) : msg[i] = "not" /\ msg[i + 1] = " " /\ msg[i + 2] = "found"

\* C11: when the root given to the command line does not exist, the run ends
\* with a message containing "not found" and a non-zero exit status, and no
\* file has been analysed and no summary, hotspot or gate output printed.
C11_MissingRootFatalBeforeAnyWork ==
    (prog = "cli" /\ ~root_exists /\ pc \notin {"thresholds", "root"}) =>
        /\ pc = "done"
        /\ exit_status # None
        /\ exit_status.code # 0
        /\ ContainsNotFound(exit_status.message)
        /\ file_metrics = <<>> /\ function_metrics = <<>>
        /\ summary = None /\ listing = None
        /\ output = <<>> /\ fail = FALSE

\* a run on a missing root has ended
C11_Witness == prog = "cli" /\ ~root_exists /\ pc = "done" /\ exit_status # None

\* number of discovered files on which analyze_file has the given outcome
CountOutcome(ds, o) == Cardinality({i \in 1..Len(ds) : ds[i].entry.outcome = o})

\* the discovered files that gave a record, in discovery order
RECURSIVE OkPaths(_)
OkPaths(ds) ==
    IF Len(ds) = 0 THEN <<>>
    ELSE (IF Head(ds).entry.outcome = "ok" THEN <<PathStr(Head(ds).path)>> ELSE <<>>)
         \o OkPaths(Tail(ds))

ScanProjectDone == prog = "hotspots" /\ pc = "done" /\ listing.by = "scan_project"

C13_PerFileFailureRecoveredLocally ==
    (prog = "cli" /\ pc = "done" /\ root_exists) =>
        /\ summary # None
        /\ summary.files_scanned = CountOutcome(py_files, "ok")

\* ------------------------------------------------------------------------
\* walk_python_files over a directory tree
\* ------------------------------------------------------------------------
MaxTreeFiles == 3  \* files under one root

\* sequences of at most n different members of S
InjSeqsUpTo(S, n) ==
    {q \in SeqsUpTo(S, n) : \A i, j \in 1..Len(q) : i # j => q[i] # q[j]}

\* a root that lies under a directory named venv
VenvRoot == [absolute |-> TRUE, parts |-> <<"home", "venv", "proj">>]

WalkRoots == {DotRoot, ProjRoot, VenvRoot}

\* a file of the tree: the directories from the root down to it, and its
\* name as stem and suffix
TreeFile(dir, stem, suffix) == [dir |-> dir, stem |-> stem, suffix |-> suffix]

TreeFiles ==
    { TreeFile(<<>>, "main", ".py"),
      TreeFile(<<>>, "readme", ".txt"),
      TreeFile(<<>>, "venv", ".py"),
      TreeFile(<<"pkg">>, "mod", ".py"),
      TreeFile(<<"pkg">>, "mod", ".pyc"),
      TreeFile(<<"pkg", "__pycache__">>, "mod", ".py"),
      TreeFile(<<".venv", "lib">>, "site", ".py"),
      TreeFile(<<"venv">>, "activate", ".py"),
      TreeFile(<<".git">>, "hook", ".py"),
      TreeFile(<<".mypy_cache", "3">>, "stub", ".py"),
      TreeFile(<<"myvenv">>, "tool", ".py") }

\* root / dir / name of a file of the tree
PathOf(rt, f) == Child(rt, f.dir, f.stem \o f.suffix)

\* root.rglob("*.py"): the files of the tree whose name ends in .py, in the
\* order the directory scan gives; nothing when the root is not a directory
rglob_py(rt, exists, tree) ==
    IF ~exists THEN <<>>
    ELSE LET IsPy(f) == f.suffix = ".py"
             py == SelectSeq(tree, IsPy)
         IN  [i \in 1..Len(py) |-> [path |-> PathOf(rt, py[i]), entry |-> py[i]]]

ignore_dirs == {".git", ".venv", "venv", ".mypy_cache", "__pycache__"}

\* a test that looks at the directory the file lies in only
HasIgnoredParent(d) ==
    /\ Len(d.path.parts) > 1
    /\ d.path.parts[Len(d.path.parts) - 1] \in ignore_dirs

\* any(part in ignore_dirs for part in p.parts)
HasIgnoredPart(d) == \E i \in 1..Len(d.path.parts) : d.path.parts[i] \in ignore_dirs

walk_python_files(rt, exists, tree) ==
    LET Kept(d) == ~HasIgnoredPart(d)
    IN  SelectSeq(rglob_py(rt, exists, tree), Kept)

InitWalk ==
    /\ pc = "start" /\ prog = "walk"
    /\ root \in WalkRoots
    /\ fs \in [tree : InjSeqsUpTo(TreeFiles, MaxTreeFiles)]
    /\ args = None /\ env = None /\ root_exists = TRUE /\ py_files = <<>>
    /\ file_metrics = <<>> /\ function_metrics = <<>> /\ skipped = 0
    /\ summary = None /\ listing = None /\ top_n = DefaultTopN
    /\ mi_threshold = None /\ typing_threshold = None /\ fail = FALSE
    /\ output = <<>> /\ exit_status = None
    /\ app = None /\ picker = None

WalkPythonFiles ==
    /\ prog = "walk" /\ pc = "start"
    /\ py_files' = walk_python_files(root, root_exists, fs.tree)
    /\ pc' = "done"
    /\ UNCHANGED <<fs, app, picker, prog, root, args, env, root_exists, file_metrics,
                   function_metrics, skipped, summary, listing, top_n, mi_threshold,
                   typing_threshold, fail, output, exit_status>>

NextWalk == WalkPythonFiles

SpecWalk == InitWalk /\ [][NextWalk]_vars

\* the segments of the path of a file of the tree, the root's included
Segments(rt, f) == rt.parts \o f.dir \o <<f.stem \o f.suffix>>

Returned(f) == \E i \in 1..Len(py_files) : py_files[i].entry = f

MaxBaseEntries == 3  \* entries of the base directory

\* Path(DEFAULT_CODE_REPO).expanduser()
BaseDir == [absolute |-> TRUE, parts |-> <<"home", "code">>]

RepoNames == {"Api", "api", "beta", "my_api"}

\* the characters of a name
Chars(name) ==
    CASE name = "Api" -> <<"A", "p", "i">>
      [] name = "api" -> <<"a", "p", "i">>
      [] name = "beta" -> <<"b", "e", "t", "a">>
      [] name = "my_api" -> <<"m", "y", "_", "a", "p", "i">>
      [] name = "a_my" -> <<"a", "_", "m", "y">>

\* ord(c)
Ord(c) ==
    CASE c = "A" -> 65 [] c = "P" -> 80 [] c = "_" -> 95 [] c = "a" -> 97
      [] c = "b" -> 98 [] c = "e" -> 101 [] c = "i" -> 105 [] c = "m" -> 109
      [] c = "p" -> 112 [] c = "t" -> 116 [] c = "y" -> 121 [] c = "z" -> 122

\* a < b for two str, character by character
RECURSIVE StrLess(_, _)
StrLess(a, b) ==
    IF Len(b) = 0 THEN FALSE
    ELSE IF Len(a) = 0 THEN TRUE
    ELSE IF Ord(Head(a)) # Ord(Head(b)) THEN Ord(Head(a)) < Ord(Head(b))
    ELSE StrLess(Tail(a), Tail(b))

markers == {"pyproject.toml", "setup.cfg", "setup.py", ".git"}

\* what an entry of the base directory may hold
ChildrenSets ==
    { {}, {"README.md"}, {"pyproject.toml"}, {".git", "README.md"}, {"setup.py", "setup.cfg"} }

\* an entry of the base directory: a plain file, or a directory with what
\* lies directly in it
BaseEntries ==
    {[name |-> n, is_dir |-> FALSE, children |-> {}] : n \in RepoNames}
        \cup {[name |-> n, is_dir |-> TRUE, children |-> c] : n \in RepoNames, c \in ChildrenSets}

\* base_dir.iterdir(): each name once, in the order of the file system
IterDirs(n) ==
    {q \in SeqsUpTo(BaseEntries, n) : \A i, j \in 1..Len(q) : i # j => q[i].name # q[j].name}

\* sorted(base_dir.iterdir()): paths of one directory compare by name
RECURSIVE InsertByName(_, _)
InsertByName(x, s) ==
    IF Len(s) = 0 THEN <<x>>
    ELSE IF StrLess(Chars(x.name), Chars(Head(s).name)) THEN <<x>> \o s
    ELSE <<Head(s)>> \o InsertByName(x, Tail(s))

\* the entries as iterdir gives them
IterdirOrder(s) == s

RECURSIVE SortedByName(_)
SortedByName(s) ==
    IF Len(s) = 0 THEN <<>>
    ELSE InsertByName(s[Len(s)], SortedByName(SubSeq(s, 1, Len(s) - 1)))

\* entry.is_dir() and any((entry / m).exists() for m in markers)
IsRepo(e) == e.is_dir /\ \E m \in markers : m \in e.children

\* list(find_repos(base_dir)): FileNotFoundError when base_dir is not a
\* directory, else the repositories found
find_repos(base_dir, base_kind, entries) ==
    IF base_kind # "dir" THEN [raised |-> TRUE, repos |-> <<>>]
    ELSE LET found == SelectSeq(SortedByName(entries), IsRepo)
         IN  [raised |-> FALSE,
              repos |-> [i \in 1..Len(found) |-> Child(base_dir, <<>>, found[i].name)]]

InitRepos ==
    /\ pc = "start" /\ prog = "repos"
    /\ root = BaseDir
    /\ \/ fs \in [base_kind : {"dir"}, base : IterDirs(MaxBaseEntries)]
       \/ fs \in [base_kind : {"file", "missing"}, base : {<<>>}]
    /\ args = None /\ env = None /\ root_exists = TRUE /\ py_files = <<>>
    /\ file_metrics = <<>> /\ function_metrics = <<>> /\ skipped = 0
    /\ summary = None /\ listing = None /\ top_n = DefaultTopN
    /\ mi_threshold = None /\ typing_threshold = None /\ fail = FALSE
    /\ output = <<>> /\ exit_status = None
    /\ app = None /\ picker = None

FindRepos ==
    /\ prog = "repos" /\ pc = "start"
    /\ LET r == find_repos(root, fs.base_kind, fs.base)
       IN  listing' = [by |-> "find_repos", raised |-> r.raised, repos |-> r.repos]
    /\ pc' = "done"
    /\ UNCHANGED <<fs, app, picker, prog, root, args, env, root_exists, py_files,
                   file_metrics, function_metrics, skipped, summary, top_n,
                   mi_threshold, typing_threshold, fail, output, exit_status>>

NextRepos == FindRepos

SpecRepos == InitRepos /\ [][NextRepos]_vars

FoundRepos == prog = "repos" /\ pc = "done" /\ fs.base_kind = "dir"

\* the name of a yielded path
NameOf(path) == path.parts[Len(path.parts)]

\* C16: for a base directory that exists, find_repos yields exactly the
\* immediate subdirectories holding at least one marker, each as base/name,
\* in ascending name order; a plain file and a subdirectory without a
\* marker are never yielded.
C16_FindReposMarkedSubdirsAscending ==
    FoundRepos =>
        /\ ~listing.raised
        /\ \A i \in 1..Len(listing.repos) :
              /\ listing.repos[i].parts = root.parts \o <<NameOf(listing.repos[i])>>
              /\ \E n \in 1..Len(fs.base) :
                    /\ fs.base[n].name = NameOf(listing.repos[i])
                    /\ fs.base[n].is_dir
                    /\ fs.base[n].children \cap
                          {"pyproject.toml", "setup.cfg", "setup.py", ".git"} # {}
        /\ \A n \in 1..Len(fs.base) :
              (fs.base[n].is_dir /\ fs.base[n].children \cap
                    {"pyproject.toml", "setup.cfg", "setup.py", ".git"} # {})
                 => \E i \in 1..Len(listing.repos) : NameOf(listing.repos[i]) = fs.base[n].name
        /\ \A i \in 1..(Len(listing.repos) - 1) :
              StrLess(Chars(NameOf(listing.repos[i])), Chars(NameOf(listing.repos[i + 1])))

\* two repositories yielded from a directory that lists them in descending
\* order next to a plain file or a directory without a marker
C16_Witness ==
    /\ FoundRepos
    /\ Len(listing.repos) = 2
    /\ Len(fs.base) = 3
    /\ \E i, j \in 1..Len(fs.base) :
          /\ i < j /\ IsRepo(fs.base[i]) /\ IsRepo(fs.base[j])
          /\ StrLess(Chars(fs.base[j].name), Chars(fs.base[i].name))

\* ------------------------------------------------------------------------
\* The interactive session (tui.py): paths typed and files looked at
\* ------------------------------------------------------------------------
MaxSessionFiles == 2  \* files under the working directory
MaxSessionRepos == 2  \* entries of the base directory of the session

\* the home directory and the working directory of the process
HomeParts == <<"home">>
CwdParts == <<"work">>

CwdRoot == [absolute |-> TRUE, parts |-> CwdParts]

\* value or "."
OrDot(text) == IF Len(text) = 0 THEN <<".">> ELSE text

\* the segments of a path text: "/" separates, "." segments are dropped
RECURSIVE Segs(_)
Segs(text) ==
    IF Len(text) = 0 THEN <<>>
    ELSE (IF Head(text) \in {"/", "."} THEN <<>> ELSE <<Head(text)>>) \o Segs(Tail(text))

\* Path(text)
PathFromText(text) == [absolute |-> Len(text) > 0 /\ text[1] = "/", parts |-> Segs(text)]

\* Path.expanduser(): a leading "~" becomes the home directory
expanduser(p) ==
    IF ~p.absolute /\ Len(p.parts) > 0 /\ p.parts[1] = "~"
    THEN [absolute |-> TRUE, parts |-> HomeParts \o Tail(p.parts)]
    ELSE p

\* Path.resolve(): a relative path is taken from the working directory
resolve(p) == IF p.absolute THEN p ELSE [absolute |-> TRUE, parts |-> CwdParts \o p.parts]

\* Path(self.path_input.value or ".").expanduser().resolve()
RootFromInput(text) == resolve(expanduser(PathFromText(OrDot(text))))

\* what the user may type into the path input
PathInputs == { <<>>, <<"/", "missing">>, <<"~", "/", "code", "/", "api">> }

\* a .py file with what analyze_file gives on it; "oserror" is read_text
\* raising OSError (a file that may not be read)
SessionFile(dir, stem, outcome, mi, fns, typed) ==
    [dir |-> dir, stem |-> stem, suffix |-> ".py", outcome |-> outcome, mi |-> mi,
     fns |-> fns, typed |-> typed]

\* the files the working directory may hold, in the order of the directory scan
CwdFiles ==
    << SessionFile(<<>>, "app", "ok", 70, <<12, 20>>, 1),
       SessionFile(<<"tests">>, "test_app", "ok", 30, <<5>>, 0),
       SessionFile(<<>>, "bad", "syntax", 0, <<>>, 0),
       SessionFile(<<>>, "blob", "none", 0, <<>>, 0),
       SessionFile(<<>>, "locked", "oserror", 0, <<>>, 0) >>

\* the files of a repository under the base directory
RepoTree(name) ==
    CASE name = "api" -> <<SessionFile(<<"src">>, "core", "ok", 90, <<3, 16>>, 2)>>
      [] name = "Api" -> <<SessionFile(<<>>, "bad", "syntax", 0, <<>>, 0),
                           SessionFile(<<>>, "lib", "ok", 80, <<7>>, 1)>>
      [] name = "my_api" -> <<SessionFile(<<>>, "locked", "oserror", 0, <<>>, 0)>>
      [] OTHER -> <<>>

\* the entries the base directory may hold, in the order iterdir gives them
SessionBase ==
    << [name |-> "my_api", is_dir |-> TRUE, children |-> {"setup.py", "setup.cfg"}],
       [name |-> "a_my", is_dir |-> TRUE, children |-> {".git"}],
       [name |-> "beta", is_dir |-> FALSE, children |-> {}],
       [name |-> "api", is_dir |-> TRUE, children |-> {"pyproject.toml"}],
       [name |-> "Api", is_dir |-> TRUE, children |-> {".git", "README.md"}] >>

\* the members of s at the positions in I, in the order of s
RECURSIVE Pick(_, _, _)
Pick(s, I, i) ==
    IF i > Len(s) THEN <<>>
    ELSE (IF i \in I THEN <<s[i]>> ELSE <<>>) \o Pick(s, I, i + 1)

SubSeqsUpTo(s, n) == {Pick(s, I, 1) : I \in {J \in SUBSET (1..Len(s)) : Cardinality(J) <= n}}

\* the file systems of the session: the working directory, and the base
\* directory, which may be missing or a plain file
SessionWorlds ==
    [cwd : SubSeqsUpTo(CwdFiles, MaxSessionFiles), base_kind : {"dir"},
     base : SubSeqsUpTo(SessionBase, MaxSessionRepos)]
    \cup [cwd : SubSeqsUpTo(CwdFiles, MaxSessionFiles), base_kind : {"file", "missing"},
          base : {<<>>}]

\* the directory a root names: whether it exists and the files under it
TreeAt(f, rt) ==
    IF rt = DotRoot \/ rt = CwdRoot THEN [exists |-> TRUE, tree |-> f.cwd]
    ELSE IF /\ f.base_kind = "dir" /\ rt.absolute
            /\ Len(rt.parts) = Len(BaseDir.parts) + 1
            /\ IsPrefix(BaseDir.parts, rt.parts)
            /\ \E n \in 1..Len(f.base) :
                  f.base[n].is_dir /\ f.base[n].name = rt.parts[Len(rt.parts)]
         THEN [exists |-> TRUE, tree |-> RepoTree(rt.parts[Len(rt.parts)])]
    ELSE [exists |-> FALSE, tree |-> <<>>]

\* scan_project(root) on the file system f
ScanOf(f, rt) ==
    scan_project(rt, walk_python_files(rt, TreeAt(f, rt).exists, TreeAt(f, rt).tree))

\* ------------------------------------------------------------------------
\* The interactive session: QualityApp and RepoPicker
\* ------------------------------------------------------------------------
\* the handler that ran last, and the option index it was given
Handler(name, idx) == [handler |-> name, idx |-> idx]

\* the texts the user may type into the filter of the picker
Queries == { <<>>, <<"m">>, <<"A", "P">>, <<"z">> }

\* str.lower(), character by character
LowerChar(c) == CASE c = "A" -> "a" [] c = "P" -> "p" [] OTHER -> c

Lower(text) == [i \in 1..Len(text) |-> LowerChar(text[i])]

\* name.startswith(query)
StartsWith(text, query) == IsPrefix(query, text)

\* query in name
Contains(text, query) ==
    \E i \in 0..(Len(text) - Len(query)) : SubSeq(text, i + 1, i + Len(query)) = query

\* p.name
NameOfPath(path) == path.parts[Len(path.parts)]

\* score(p) of _refresh_list, for the lowered query
score(path, query) ==
    IF Len(query) = 0 THEN 0
    ELSE IF StartsWith(Lower(Chars(NameOfPath(path))), query) THEN 0 - 2
    ELSE IF Contains(Lower(Chars(NameOfPath(path))), query) THEN 0 - 1
    ELSE 0

\* sorted(self._repos, key=score): ascending and stable
RECURSIVE InsertByScore(_, _, _)
InsertByScore(x, s, query) ==
    IF Len(s) = 0 THEN <<x>>
    ELSE IF score(x, query) < score(Head(s), query) THEN <<x>> \o s
    ELSE <<Head(s)>> \o InsertByScore(x, Tail(s), query)

RECURSIVE SortedByScore(_, _)
SortedByScore(s, query) ==
    IF Len(s) = 0 THEN <<>>
    ELSE InsertByScore(s[Len(s)], SortedByScore(SubSeq(s, 1, Len(s) - 1), query), query)

\* a _refresh_list that fills the option list and keeps the old _matched
refresh_list_stale_matched(pk, query) ==
    LET q == Lower(query)
        Matches(path) == Contains(Lower(Chars(NameOfPath(path))), q)
        matched == IF Len(q) = 0 THEN SortedByScore(pk.repos, q)
                   ELSE SelectSeq(SortedByScore(pk.repos, q), Matches)
    IN  [pk EXCEPT !.filter = query,
                   !.options = [i \in 1..Len(matched) |-> NameOfPath(matched[i])]]

\* RepoPicker._refresh_list(query)
refresh_list(pk, query) ==
    LET q == Lower(query)
        Matches(path) == Contains(Lower(Chars(NameOfPath(path))), q)
        matched == IF Len(q) = 0 THEN SortedByScore(pk.repos, q)
                   ELSE SelectSeq(SortedByScore(pk.repos, q), Matches)
    IN  [pk EXCEPT !.filter = query,
                   !.matched = matched,
                   !.options = [i \in 1..Len(matched) |-> NameOfPath(matched[i])]]

\* RepoPicker(base_dir) as constructed
NewPicker(base_dir) ==
    [base_dir |-> base_dir, repos |-> <<>>, matched |-> <<>>, options |-> <<>>, filter |-> <<>>]

\* a selection that indexes the whole list of repositories
SelectedFromRepos(pk, idx) == pk.repos[idx + 1]

\* self._matched[idx]
SelectedPath(pk, idx) == pk.matched[idx + 1]

\* a pop_screen that also puts the path input back to "."
pop_screen_resetting_input(a) == [a EXCEPT !.screen = "main", !.path_input = <<".">>]

\* App.pop_screen(): the picker is left, the main screen is shown again
pop_screen(a) == [a EXCEPT !.screen = "main"]

\* the first two statements of _run_scan
RunScanBegin(a, rt) ==
    [a EXCEPT !.status = "scanning",
              !.current_root = rt,
              !.summary_box = [kind |-> "scanning", root |-> PathStr(rt)]]

\* a _run_scan that keeps every function of the scan, in discovery order,
\* as current_functions
RunScanPublishAllFunctions(a, r) ==
    [a EXCEPT !.status = "ready",
              !.current_functions = r.fn_metrics,
              !.summary_box = [kind |-> "summary", summary |-> r.summary,
                               skipped |-> r.skipped],
              !.files_table = FileRows(r.worst_files, a.current_root),
              !.funcs_table = FnRows(r.worst_fns, a.current_root)]

\* the rest of _run_scan, given what scan_project returned
RunScanPublish(a, r) ==
    [a EXCEPT !.status = "ready",
              !.current_functions = r.worst_fns,
              !.summary_box = [kind |-> "summary", summary |-> r.summary,
                               skipped |-> r.skipped],
              !.files_table = FileRows(r.worst_files, a.current_root),
              !.funcs_table = FnRows(r.worst_fns, a.current_root)]

\* QualityApp after compose, before on_mount
NewApp ==
    [status |-> "idle", screen |-> "main", current_root |-> None, path_input |-> <<".">>,
     summary_box |-> [kind |-> "empty"], files_table |-> <<>>, funcs_table |-> <<>>,
     current_functions |-> <<>>, error |-> "", last |-> Handler("compose", 0 - 1)]

InitSession ==
    /\ pc = "session" /\ prog = "tui"
    /\ fs \in SessionWorlds
    /\ app = NewApp
    /\ picker = None
    /\ root = None /\ args = None /\ env = None /\ root_exists = TRUE /\ py_files = <<>>
    /\ file_metrics = <<>> /\ function_metrics = <<>> /\ skipped = 0
    /\ summary = None /\ listing = None /\ top_n = DefaultTopN
    /\ mi_threshold = None /\ typing_threshold = None /\ fail = FALSE
    /\ output = <<>> /\ exit_status = None

\* the variables of the batch runs, which the session leaves alone
batch_vars ==
    <<pc, prog, root, args, env, root_exists, py_files, file_metrics, function_metrics,
      skipped, summary, listing, top_n, mi_threshold, typing_threshold, fail, output,
      exit_status>>

\* QualityApp.on_mount, up to the call of scan_project
Mount ==
    /\ prog = "tui" /\ app.status = "idle"
    /\ app' = RunScanBegin([app EXCEPT !.files_table = <<>>, !.funcs_table = <<>>,
                                        !.current_functions = <<>>,
                                        !.last = Handler("on_mount", 0 - 1)],
                            DotRoot)
    /\ UNCHANGED <<fs, picker, batch_vars>>

\* _run_scan from the call of scan_project on, and what the handler that
\* called _run_scan does after it: an exception of scan_project ends the
\* session, the picker that started the scan is popped when it returns
RunScan ==
    /\ prog = "tui" /\ app.status = "scanning"
    /\ LET r == ScanOf(fs, app.current_root)
       IN  \/ /\ r.raised
              /\ app' = [app EXCEPT !.status = "crashed", !.error = "OSError"]
              /\ UNCHANGED picker
           \/ /\ ~r.raised
              /\ app' = IF app.screen = "picker" THEN pop_screen(RunScanPublish(app, r))
                         ELSE RunScanPublish(app, r)
              /\ picker' = None
    /\ UNCHANGED <<fs, batch_vars>>

\* the user edits the path input
PathInputChanged ==
    /\ prog = "tui" /\ app.status = "ready" /\ app.screen = "main"
    /\ \E text \in PathInputs :
          /\ text # app.path_input
          /\ app' = [app EXCEPT !.path_input = text, !.last = Handler("path_input", 0 - 1)]
    /\ UNCHANGED <<fs, picker, batch_vars>>

\* QualityApp.on_button_pressed for the scan button, up to scan_project
on_button_pressed ==
    /\ prog = "tui" /\ app.status = "ready" /\ app.screen = "main"
    /\ app' = RunScanBegin([app EXCEPT !.last = Handler("on_button_pressed", 0 - 1)],
                            RootFromInput(app.path_input))
    /\ UNCHANGED <<fs, picker, batch_vars>>

\* QualityApp.action_rescan, up to scan_project
action_rescan ==
    /\ prog = "tui" /\ app.status = "ready" /\ app.screen = "main"
    /\ app' = RunScanBegin([app EXCEPT !.last = Handler("action_rescan", 0 - 1)],
                            RootFromInput(app.path_input))
    /\ UNCHANGED <<fs, picker, batch_vars>>

\* QualityApp.action_pick_repo and RepoPicker.on_mount: the screen is pushed,
\* then find_repos runs; its FileNotFoundError is caught nowhere
action_pick_repo ==
    /\ prog = "tui" /\ app.status = "ready" /\ app.screen = "main"
    /\ LET r == find_repos(BaseDir, fs.base_kind, fs.base)
       IN  \/ /\ r.raised
              /\ app' = [app EXCEPT !.screen = "picker", !.status = "crashed",
                                     !.error = "FileNotFoundError",
                                     !.last = Handler("action_pick_repo", 0 - 1)]
              /\ picker' = NewPicker(BaseDir)
           \/ /\ ~r.raised
              /\ app' = [app EXCEPT !.screen = "picker",
                                     !.last = Handler("action_pick_repo", 0 - 1)]
              /\ picker' = refresh_list([NewPicker(BaseDir) EXCEPT !.repos = r.repos], <<>>)
    /\ UNCHANGED <<fs, batch_vars>>

\* RepoPicker.on_input_changed for the filter
on_input_changed ==
    /\ prog = "tui" /\ app.status = "ready" /\ app.screen = "picker"
    /\ \E query \in Queries :
          /\ query # picker.filter
          /\ picker' = refresh_list(picker, query)
    /\ app' = [app EXCEPT !.last = Handler("on_input_changed", 0 - 1)]
    /\ UNCHANGED <<fs, batch_vars>>

\* RepoPicker.action_cancel
action_cancel ==
    /\ prog = "tui" /\ app.status = "ready" /\ app.screen = "picker"
    /\ app' = pop_screen([app EXCEPT !.last = Handler("action_cancel", 0 - 1)])
    /\ picker' = None
    /\ UNCHANGED <<fs, batch_vars>>

\* RepoPicker.on_option_list_option_selected, up to scan_project; the index
\* -1 stands for None
on_option_list_option_selected ==
    /\ prog = "tui" /\ app.status = "ready" /\ app.screen = "picker"
    /\ \E idx \in (0 - 1)..MaxSessionRepos :
          \/ /\ ~(0 <= idx /\ idx < Len(picker.matched))
             /\ app' = [app EXCEPT !.last = Handler("on_option_list_option_selected", idx)]
          \/ /\ 0 <= idx /\ idx < Len(picker.matched)
             /\ app' = RunScanBegin(
                           [app EXCEPT !.path_input = PathStr(SelectedPath(picker, idx)),
                                       !.last = Handler("on_option_list_option_selected",
                                                        idx)],
                           SelectedPath(picker, idx))
    /\ UNCHANGED <<fs, picker, batch_vars>>

DEFAULT_EDITOR == "vim"

\* what subprocess.run may do with the editor: the editor runs and exits
\* with status 0, it exits with another status (no check is asked, so run
\* returns), or the program is not found and run raises FileNotFoundError
EditorOutcomes == {"exit_0", "exit_1", "not_found"}

\* f"+{line}"
LineDirective(line) == <<"+", ToString(line)>>

\* subprocess.run([DEFAULT_EDITOR, f"+{line}", file])
EditorCall(fn, outcome) ==
    [called |-> TRUE, program |-> DEFAULT_EDITOR,
     args |-> <<LineDirective(fn.lineno), fn.file>>, outcome |-> outcome]

NoEditorCall == [called |-> FALSE]

\* the key handler that ran last, the row of the cursor and its editor call
KeyHandler(row, call) == [handler |-> "on_key", idx |-> row, editor |-> call]

\* QualityApp.on_key for enter on the functions table; the row -1 stands for
\* a cursor_coordinate of None
on_key ==
    /\ prog = "tui" /\ app.status = "ready" /\ app.screen = "main"
    /\ \E row \in (0 - 1)..Len(app.funcs_table) :
          \/ /\ row < 0 \/ row >= Len(app.current_functions)
             /\ app' = [app EXCEPT !.last = KeyHandler(row, NoEditorCall)]
          \/ /\ row >= 0 /\ row < Len(app.current_functions)
             /\ \E outcome \in EditorOutcomes :
                   app' = IF outcome = "not_found"
                          THEN [app EXCEPT !.status = "crashed",
                                           !.error = "FileNotFoundError",
                                           !.last = KeyHandler(row,
                                               EditorCall(app.current_functions[row + 1],
                                                          outcome))]
                          ELSE [app EXCEPT !.last = KeyHandler(row,
                                               EditorCall(app.current_functions[row + 1],
                                                          outcome))]
    /\ UNCHANGED <<fs, picker, batch_vars>>

NextSession ==
    \/ Mount
    \/ RunScan
    \/ PathInputChanged
    \/ on_button_pressed
    \/ action_rescan
    \/ action_pick_repo
    \/ on_input_changed
    \/ action_cancel
    \/ on_option_list_option_selected
    \/ on_key

SpecSession == InitSession /\ [][NextSession]_vars

\* ------------------------------------------------------------------------
\* Claims about the interactive session
\* ------------------------------------------------------------------------
\* what the session shows and keeps of a scan
View(a) ==
    [current_root |-> a.current_root, path_input |-> a.path_input,
     summary_box |-> a.summary_box, files_table |-> a.files_table,
     funcs_table |-> a.funcs_table, current_functions |-> a.current_functions]

ScanHandlers ==
    {"on_mount", "on_button_pressed", "action_rescan", "on_option_list_option_selected"}

\* C15: a scan started with the scan button or the rescan action on a root
\* that does not exist reports a path-not-found error; it does not publish
\* a summary.
C15_MissingRootScanReportsError ==
    (/\ prog = "tui" /\ app.status = "ready"
     /\ app.last.handler \in {"on_button_pressed", "action_rescan"}
     /\ ~TreeAt(fs, app.current_root).exists)
        => app.summary_box.kind # "summary"

\* C17: when the base directory is missing or is not a directory, opening
\* the repository picker does not crash the session.
C17_PickerErrorStaysInPicker ==
    (/\ prog = "tui" /\ app.last.handler = "action_pick_repo"
     /\ fs.base_kind # "dir")
        => app.status # "crashed"

\* C18: no scan started by the session (mount, scan button, rescan action,
\* repository selection) ends the session in a failure, whatever analyze_file
\* does on the files and whatever root was submitted.
C18_NoScanEndsInFailure ==
    (prog = "tui" /\ app.last.handler \in ScanHandlers) => app.status # "crashed"

\* C19: opening the picker, typing into its filter and cancelling it leave
\* the current root, the path input, the summary box, the two tables and
\* current_functions as they were and start no scan; after the cancel the
\* main screen is shown again and the session is Ready.
C19_CancelLeavesSessionUnchanged ==
    [][ (/\ prog = "tui"
         /\ app'.last.handler \in {"action_pick_repo", "on_input_changed", "action_cancel"})
          => /\ View(app') = View(app)
             /\ app'.status # "scanning"
             /\ app'.last.handler = "action_cancel"
                   => /\ app.screen = "picker"
                      /\ app'.status = "ready" /\ app'.screen = "main"
                      /\ picker' = None ]_vars

\* the picker was cancelled over a result with a functions table, after
\* the path input had been edited
C19_Witness ==
    /\ prog = "tui" /\ app.last.handler = "action_cancel"
    /\ app.status = "ready" /\ app.screen = "main"
    /\ Len(app.funcs_table) > 0
    /\ app.path_input # PathStr(app.current_root)
    /\ app.path_input # <<".">>

\* the repository an option of the picker shows
RepoOfOption(name) == [absolute |-> TRUE, parts |-> <<"home", "code", name>>]

\* number of files of a tree on which analyze_file has the given outcome
OutcomesIn(tree, o) == Cardinality({i \in 1..Len(tree) : tree[i].outcome = o})

C23_CoverageZeroIffNoFunctions ==
    Summarized =>
        /\ summary.typed_functions <= summary.total_functions
        /\ summary.typing_coverage = Num(0) <=> summary.total_functions = 0

\* C23 amended: typed_functions <= total_functions; typing_coverage is the
\* percentage 100 * typed_functions / total_functions when there is a
\* function and 0.0 when there is none, so it is 0.0 exactly when
\* typed_functions is 0, and it is never above 100.
C23_CoverageZeroIffNoneTyped ==
    Summarized =>
        /\ summary.typed_functions <= summary.total_functions
        /\ summary.total_functions > 0 =>
              summary.typing_coverage.num * summary.total_functions
                  = summary.typed_functions * 100 * summary.typing_coverage.den
        /\ summary.total_functions = 0 => summary.typing_coverage = Num(0)
        /\ summary.typing_coverage = Num(0) <=> summary.typed_functions = 0
        /\ ~LT(Num(100), summary.typing_coverage)

\* a summary over functions none of which is typed
C23_Witness ==
    /\ Summarized
    /\ summary.total_functions > 0 /\ summary.typed_functions = 0
    /\ summary.typing_coverage = Num(0)

\* ------------------------------------------------------------------------
\* Claims about the accounting of a scan
\* ------------------------------------------------------------------------
\* the function records of the discovered files that gave a record, file
\* by file in discovery order
RECURSIVE OkFunctions(_)
OkFunctions(ds) ==
    IF Len(ds) = 0 THEN <<>>
    ELSE (IF Head(ds).entry.outcome = "ok"
          THEN [j \in 1..Len(Head(ds).entry.fns) |->
                   [file |-> PathStr(Head(ds).path), cx |-> Head(ds).entry.fns[j]]]
          ELSE <<>>)
         \o OkFunctions(Tail(ds))

\* C25: after scan_project every discovered file is in exactly one of
\* files_scanned, the skipped counter and the files that returned None;
\* files_scanned counts test files like the others; the functions that are
\* ranked are exactly those of the files counted in files_scanned.
C25_EveryDiscoveredFileAccounted ==
    ScanProjectDone =>
        /\ Len(py_files)
              = summary.files_scanned + skipped + CountOutcome(py_files, "none")
        /\ summary.files_scanned = CountOutcome(py_files, "ok")
        /\ [i \in 1..Len(function_metrics) |->
                [file |-> function_metrics[i].file,
                 cx |-> function_metrics[i].cognitive_complexity]] = OkFunctions(py_files)
        /\ Len(listing.worst_fns) = Min2(10, Len(function_metrics))
        /\ \A i \in 1..Len(listing.worst_fns) : InSeq(listing.worst_fns[i], function_metrics)

\* a scan of a test file with functions, a file that returned None and a
\* file that raised SyntaxError
C25_Witness ==
    /\ ScanProjectDone
    /\ Len(py_files) = 3
    /\ summary.files_scanned = 1 /\ skipped = 1
    /\ IsTestFile(file_metrics[1].path)
    /\ Len(listing.worst_fns) > 0

\* ------------------------------------------------------------------------
\* Claims about the list of the repository picker
\* ------------------------------------------------------------------------
PickerOpen == prog = "tui" /\ app.screen = "picker" /\ app.status # "crashed"

\* the lower-cased name of a repository, and the lower-cased filter
LowName(path) == Lower(Chars(NameOf(path)))

LowFilter == Lower(picker.filter)

\* the lower-cased filter occurs in the lower-cased name / begins it
NameHasFilter(path) ==
    \E i \in 1..(Len(LowName(path)) + 1) : \E j \in 0..Len(LowName(path)) :
        SubSeq(LowName(path), i, j) = LowFilter

NameBeginsWithFilter(path) ==
    /\ Len(LowFilter) <= Len(LowName(path))
    /\ \A i \in 1..Len(LowFilter) : LowName(path)[i] = LowFilter[i]

\* position of a repository in the list found on mount
RepoPos(path) == CHOOSE i \in 1..Len(picker.repos) : picker.repos[i] = path

\* C27: while the picker is open, _matched and the displayed options are
\* the same repositories in the same order; with a non-empty filter
\* _matched holds exactly the discovered repositories whose lower-cased name
\* contains the lower-cased filter, those whose name begins with it first
\* and otherwise in the order of discovery; with an empty filter it is the
\* discovered list; a scan started by a selection is the scan of the
\* repository whose name is displayed at the selected position.
C27_MatchedIsDisplayedFilteredList ==
    PickerOpen =>
        /\ picker.options = [i \in 1..Len(picker.matched) |-> NameOf(picker.matched[i])]
        /\ \A i \in 1..Len(picker.matched) : InSeq(picker.matched[i], picker.repos)
        /\ \A i, j \in 1..Len(picker.matched) :
              i # j => picker.matched[i] # picker.matched[j]
        /\ Len(picker.filter) = 0 => picker.matched = picker.repos
        /\ Len(picker.filter) > 0 =>
              /\ \A n \in 1..Len(picker.repos) :
                    InSeq(picker.repos[n], picker.matched) <=> NameHasFilter(picker.repos[n])
              /\ \A i, j \in 1..Len(picker.matched) :
                    i < j =>
                       \/ NameBeginsWithFilter(picker.matched[i])
                             /\ ~NameBeginsWithFilter(picker.matched[j])
                       \/ /\ NameBeginsWithFilter(picker.matched[i])
                                = NameBeginsWithFilter(picker.matched[j])
                          /\ RepoPos(picker.matched[i]) < RepoPos(picker.matched[j])
        /\ (app.status = "scanning" /\ app.last.handler = "on_option_list_option_selected")
              => /\ app.last.idx >= 0 /\ app.last.idx < Len(picker.options)
                 /\ NameOf(app.current_root) = picker.options[app.last.idx + 1]
                 /\ app.current_root = picker.matched[app.last.idx + 1]

\* a filter that puts a repository whose name begins with it before one
\* that was discovered earlier
C27_Witness ==
    /\ PickerOpen /\ app.status = "ready"
    /\ Len(picker.filter) > 0
    /\ Len(picker.matched) = 2
    /\ picker.matched # picker.repos
    /\ app.last.handler = "on_input_changed"

\* ------------------------------------------------------------------------
\* Claims about the open-in-editor action
\* ------------------------------------------------------------------------
KeyPressed == prog = "tui" /\ app.last.handler = "on_key"

EditorCalled == KeyPressed /\ app.last.editor.called

\* C21: the editor is invoked with exactly two arguments, the directive
\* +<line> of the activated function and the absolute path of its file,
\* after every scan, the scan of "." on mount included.
C21_EditorGetsLineAndAbsolutePath ==
    EditorCalled =>
        /\ Len(app.last.editor.args) = 2
        /\ app.last.editor.args[1]
              = <<"+", ToString(app.current_functions[app.last.idx + 1].lineno)>>
        /\ app.last.editor.args[2][1] = "/"

\* C22: whether the editor exits with status 0, exits with an error or
\* cannot be launched, the session is Ready after the action and no failure
\* has reached it.
C22_EditorFailureNotPropagated ==
    KeyPressed => app.status = "ready" /\ app.error = ""

\* C26: current_functions and the functions table hold the same functions
\* in the same order; activating a row below len(current_functions) invokes
\* the editor on the file and line of the function shown in that row, a
\* row at or beyond it or no row invokes no editor; the function the editor
\* is invoked for is in the worst-functions list of the latest scan.
C26_CurrentFunctionsAreTheTableRows ==
    prog = "tui" =>
        /\ Len(app.current_functions) = Len(app.funcs_table)
        /\ \A i \in 1..Len(app.funcs_table) :
              /\ app.funcs_table[i].name = app.current_functions[i].name
              /\ app.funcs_table[i].lineno = app.current_functions[i].lineno
              /\ app.funcs_table[i].cx = app.current_functions[i].cognitive_complexity
              /\ Len(app.funcs_table[i].file) <= Len(app.current_functions[i].file)
              /\ SubSeq(app.current_functions[i].file,
                        Len(app.current_functions[i].file) - Len(app.funcs_table[i].file) + 1,
                        Len(app.current_functions[i].file)) = app.funcs_table[i].file
        /\ KeyPressed =>
              IF app.last.idx >= 0 /\ app.last.idx < Len(app.funcs_table)
              THEN /\ app.last.editor.called
                   /\ app.last.editor.args[1]
                         = <<"+", ToString(app.funcs_table[app.last.idx + 1].lineno)>>
                   /\ app.last.editor.args[2]
                         = app.current_functions[app.last.idx + 1].file
                   /\ \E i \in 1..Len(ScanOf(fs, app.current_root).worst_fns) :
                         /\ ScanOf(fs, app.current_root).worst_fns[i].file
                               = app.last.editor.args[2]
                         /\ ScanOf(fs, app.current_root).worst_fns[i].lineno
                               = app.funcs_table[app.last.idx + 1].lineno
              ELSE ~app.last.editor.called

\* the second row of a table of at least two functions was activated after
\* a second scan
C26_Witness ==
    /\ EditorCalled
    /\ app.last.idx = 1
    /\ app.current_root.absolute
    /\ app.status = "ready"

\* ------------------------------------------------------------------------
\* Claims about the replacement of the displayed result
\* ------------------------------------------------------------------------
\* the roots a scan of the session may be given
SessionRoots ==
    {DotRoot}
        \cup {RootFromInput(text) : text \in PathInputs \cup {<<".">>}}
        \cup {RepoOfOption(SessionBase[n].name) : n \in 1..Len(SessionBase)}

\* the session shows the whole result of the completed scan of rt
ShowsScanOf(rt) ==
    /\ ~ScanOf(fs, rt).raised
    /\ app.summary_box = [kind |-> "summary", summary |-> ScanOf(fs, rt).summary,
                           skipped |-> ScanOf(fs, rt).skipped]
    /\ app.files_table = FileRows(ScanOf(fs, rt).worst_files, rt)
    /\ app.funcs_table = FnRows(ScanOf(fs, rt).worst_fns, rt)
    /\ app.current_functions = ScanOf(fs, rt).worst_fns

\* C24: whenever a handler of the session has ended, by returning or by an
\* error part-way through a scan, the summary box, the files table, the
\* functions table and current_functions are those of one and the same
\* completed scan.
C24_DisplayedResultIsOneCompletedScan ==
    (prog = "tui" /\ app.status \in {"ready", "crashed"}) =>
        \E rt \in SessionRoots : ShowsScanOf(rt)

====
